---- MODULE Spec2Model ----
(***************************************************************************)
(* AllSports backend: the /user routes (register, login), the JWT gate     *)
(* (authenticateToken, authorizeRoles) and the /categories and /products   *)
(* routes, as a state machine over the three stores and the requests in    *)
(* flight.  Every `await` of a handler is one step, so that the steps of   *)
(* concurrent requests interleave the way the event loop interleaves them. *)
(***************************************************************************)
EXTENDS Integers, FiniteSets, Sequences, TLC

\* ------------------------------------------------------------------ bounds
\* requests in flight at once in the user routes' specification
MaxReqs == 2
\* the last minute the clock reaches
MaxClock == 61
\* requests in flight at once in the gate's specification
MaxGateReqs == 1
\* the ids the tables hand out and the paths name
MaxId == 2
\* the tokens the clients keep
MaxTokens == 1

\* ------------------------------------------------------- program constants
\* expiresIn: "1h", in minutes (the clock of the model counts minutes)
ExpiresIn == 60
\* bcrypt.hash(password, 10)
SaltRounds == 10

\* ------------------------------------------------------------ input values
NoValue == "undefined"
Emails == {"a@x.com", "b@x.com"}
\* the passwords clients register with, and those they try at login
Passwords == {"pw"}
Attempts == {"pw", "wrong"}
Roles == {"admin", "user"}
Names == {"A"}
Salts == {"s1", "s2"}
ProcessSecret == "k1"
OtherSecret == "k2"
TickSteps == {59, 60, 61}

NoHash == [salt |-> "", rounds |-> 0, digest |-> ""]
NoUser == [id |-> 0, name |-> "", email |-> "", password |-> NoHash, role |-> ""]
NoToken == [kind |-> "missing", id |-> 0, role |-> "", iat |-> 0, exp |-> 0, sig |-> ""]
NoBody == [name |-> "", email |-> "", password |-> "", role |-> ""]
NoReg == [user |-> NoUser, password |-> "", count |-> 0]
NoIdentity == [id |-> 0, role |-> ""]
NoItem == [name |-> NoValue, description |-> NoValue, price |-> NoValue, categoryId |-> 0]
MalformedToken == [NoToken EXCEPT !.kind = "malformed"]

VARIABLES
    users,      \* the User table: a set of records
    nextUserId, \* the table's auto-increment counter
    clock,      \* wall clock, in minutes
    secret,     \* process.env.SECRET_KEY, NoValue when it is not set
    storeFaulty,\* TRUE when calls to the database may fail
    serving,    \* TRUE once app.listen has been called
    reqs,       \* the requests in flight and just answered: slot -> request record
    registered, \* history: email -> what the register answered 201 for it created
    categories, \* the Category table
    nextCategoryId,
    products,   \* the Product table
    nextProductId,
    wallet      \* the tokens the clients keep from login responses

userVars == <<users, nextUserId, registered>>
catalogVars == <<categories, nextCategoryId, products, nextProductId>>
envVars == <<secret, storeFaulty, serving>>
vars == <<userVars, catalogVars, envVars, clock, reqs, wallet>>

Slots == DOMAIN reqs

\* ----------------------------------------------------------------- bcrypt
\* bcrypt.hash(data, rounds) with the salt it drew: rejects unless data is a string
HashThrows(data) == data = NoValue
BcryptHash(data, rounds, salt) == [salt |-> salt, rounds |-> rounds, digest |-> data]
\* bcrypt.compare(data, hash): rejects unless data is a string
CompareThrows(data) == data = NoValue
BcryptCompare(data, hash) == BcryptHash(data, hash.rounds, hash.salt) = hash

\* --------------------------------------------------------------- the store
\* User.findOne({where: {email}})
FindOneByEmail(store, email) ==
    IF \E u \in store : u.email = email
    THEN CHOOSE u \in store : u.email = email
    ELSE NoUser

\* the User model's unique email: an insert of a second record with it fails
M_UniqueViolation(store, email) == FALSE
UniqueViolation(store, email) == \E u \in store : u.email = email

\* the outcomes of one database call: it fails only when the store is faulty
StoreOutcomes == IF storeFaulty THEN {"ok", "fail"} ELSE {"ok"}

\* ------------------------------------------------------------ jsonwebtoken
\* jwt.sign(payload, secret, {expiresIn}) throws when the secret is falsy
SignThrows(key) == key = NoValue \/ key = ""
M_Exp_JwtSign(user, key, now) ==
    [kind |-> "jwt", id |-> user.id, role |-> user.role,
     iat |-> now, exp |-> now + 2 * ExpiresIn, sig |-> key]
M_Role_JwtSign(user, key, now) ==
    [kind |-> "jwt", id |-> user.id, role |-> "user",
     iat |-> now, exp |-> now + ExpiresIn, sig |-> key]
JwtSign(user, key, now) ==
    [kind |-> "jwt", id |-> user.id, role |-> user.role,
     iat |-> now, exp |-> now + ExpiresIn, sig |-> key]

\* ----------------------------------------------------------------- requests
IdleReq ==
    [route |-> "", pc |-> "idle", body |-> NoBody, token |-> NoToken,
     user |-> NoUser, hashPassword |-> NoHash,
     status |-> 0, message |-> "", resUser |-> NoUser, resToken |-> NoToken,
     nresp |-> 0, at |-> 0, prior |-> NoReg,
     id |-> 0, item |-> NoItem, identity |-> NoIdentity, ran |-> <<>>,
     resItems |-> {}, handlerRan |-> FALSE, storeOps |-> 0, wrote |-> FALSE,
     existed |-> FALSE, recvAt |-> 0]

\* res.status(s).json(...)
Respond(q, s, m, u, t) ==
    [q EXCEPT !.pc = "done", !.status = s, !.message = m,
              !.resUser = u, !.resToken = t, !.nresp = q.nresp + 1, !.at = clock]

RespondItems(q, s, m, items) ==
    [Respond(q, s, m, NoUser, NoToken) EXCEPT !.resItems = items]

\* a rejection of the async handler that no try covers: Express 4 leaves the
\* request unanswered, Express 5 hands it to the default error handler (500)
EscapeOutcomes == {"unanswered", "framework500"}
Escaped(q, outcome) ==
    IF outcome = "unanswered"
    THEN [q EXCEPT !.pc = "escaped"]
    ELSE [q EXCEPT !.pc = "escaped", !.status = 500, !.message = "Internal Server Error",
                   !.nresp = q.nresp + 1]

Finished(q) == q.pc \in {"done", "escaped"}

\* a new request takes the lowest free slot
SlotFree(r) ==
    /\ serving
    /\ reqs[r].pc = "idle"
    /\ \A p \in Slots : p < r => reqs[p].pc # "idle"

\* ------------------------------------------------------ POST /user/register
ReceiveRegister(r) ==
    /\ SlotFree(r)
    /\ \E n \in Names, e \in Emails, p \in Passwords \cup {NoValue}, ro \in Roles :
         reqs' = [reqs EXCEPT ![r] =
                    [IdleReq EXCEPT !.route = "register", !.pc = "findOne",
                        !.body = [name |-> n, email |-> e, password |-> p, role |-> ro],
                        !.prior = registered[e]]]
    /\ UNCHANGED <<userVars, catalogVars, envVars, clock, wallet>>

\* if(existingUser)
M_ExistingUser(existingUser) == FALSE
ExistingUser(existingUser) == existingUser # NoUser

\* const existingUser = await User.findOne(...); if(existingUser) return 400
RegisterFindOne(r) ==
    /\ reqs[r].route = "register" /\ reqs[r].pc = "findOne"
    /\ \E db \in StoreOutcomes, out \in EscapeOutcomes :
         LET q == reqs[r]
             existingUser == FindOneByEmail(users, q.body.email)
         IN reqs' = [reqs EXCEPT ![r] =
                IF db = "fail" THEN Escaped(q, out)
                ELSE IF ExistingUser(existingUser)
                     THEN Respond(q, 400, "User already exists", NoUser, NoToken)
                     ELSE [q EXCEPT !.pc = "hash"]]
    /\ UNCHANGED <<userVars, catalogVars, envVars, clock, wallet>>

\* const hashPassword = await bcrypt.hash(password, 10)
RegisterHash(r) ==
    /\ reqs[r].route = "register" /\ reqs[r].pc = "hash"
    /\ \E salt \in Salts, out \in EscapeOutcomes :
         LET q == reqs[r]
         IN reqs' = [reqs EXCEPT ![r] =
                IF HashThrows(q.body.password) THEN Escaped(q, out)
                ELSE [q EXCEPT !.pc = "create",
                        !.hashPassword = BcryptHash(q.body.password, SaltRounds, salt)]]
    /\ UNCHANGED <<userVars, catalogVars, envVars, clock, wallet>>

\* try { user = await User.create(...); 201 } catch(err) { 500 }
M_RegisterCreate(r) ==
    /\ reqs[r].route = "register" /\ reqs[r].pc = "create"
    /\ \E db \in StoreOutcomes :
         LET q == reqs[r]
             user == [id |-> nextUserId, name |-> q.body.name, email |-> q.body.email,
                      password |-> q.hashPassword, role |-> "user"]
         IN IF db = "fail" \/ UniqueViolation(users, q.body.email)
            THEN /\ reqs' = [reqs EXCEPT ![r] = Respond(q, 500, "err", NoUser, NoToken)]
                 /\ UNCHANGED <<users, nextUserId, registered>>
            ELSE /\ users' = users \cup {user}
                 /\ nextUserId' = nextUserId + 1
                 /\ reqs' = [reqs EXCEPT ![r] = Respond(q, 201, "", user, NoToken)]
                 /\ registered' = [registered EXCEPT ![q.body.email] =
                        [user |-> user, password |-> q.body.password,
                         count |-> registered[q.body.email].count + 1]]
    /\ UNCHANGED <<catalogVars, envVars, clock, wallet>>
RegisterCreate(r) ==
    /\ reqs[r].route = "register" /\ reqs[r].pc = "create"
    /\ \E db \in StoreOutcomes :
         LET q == reqs[r]
             user == [id |-> nextUserId, name |-> q.body.name, email |-> q.body.email,
                      password |-> q.hashPassword, role |-> q.body.role]
         IN IF db = "fail" \/ UniqueViolation(users, q.body.email)
            THEN /\ reqs' = [reqs EXCEPT ![r] = Respond(q, 500, "err", NoUser, NoToken)]
                 /\ UNCHANGED <<users, nextUserId, registered>>
            ELSE /\ users' = users \cup {user}
                 /\ nextUserId' = nextUserId + 1
                 /\ reqs' = [reqs EXCEPT ![r] = Respond(q, 201, "", user, NoToken)]
                 /\ registered' = [registered EXCEPT ![q.body.email] =
                        [user |-> user, password |-> q.body.password,
                         count |-> registered[q.body.email].count + 1]]
    /\ UNCHANGED <<catalogVars, envVars, clock, wallet>>

\* --------------------------------------------------------- POST /user/login
ReceiveLogin(r) ==
    /\ SlotFree(r)
    /\ \E e \in Emails, p \in Attempts \cup {NoValue} :
         reqs' = [reqs EXCEPT ![r] =
                    [IdleReq EXCEPT !.route = "login", !.pc = "findOne",
                        !.body = [name |-> "", email |-> e, password |-> p, role |-> ""],
                        !.prior = registered[e]]]
    /\ UNCHANGED <<userVars, catalogVars, envVars, clock, wallet>>

\* the two 401 answers of login: no such user, and password mismatch
M_LoginAbsent(q) == Respond(q, 404, "User not found", NoUser, NoToken)
LoginAbsent(q) == Respond(q, 401, "Invalid credentials", NoUser, NoToken)
LoginMismatch(q) == Respond(q, 401, "Invalid credentials", NoUser, NoToken)

\* const user = await User.findOne(...); if(user) ... else 401
LoginFindOne(r) ==
    /\ reqs[r].route = "login" /\ reqs[r].pc = "findOne"
    /\ \E db \in StoreOutcomes :
         LET q == reqs[r]
             user == FindOneByEmail(users, q.body.email)
         IN reqs' = [reqs EXCEPT ![r] =
                IF db = "fail" THEN Respond(q, 500, "err", NoUser, NoToken)
                ELSE IF user # NoUser
                     THEN [q EXCEPT !.pc = "compare", !.user = user]
                     ELSE LoginAbsent(q)]
    /\ UNCHANGED <<userVars, catalogVars, envVars, clock, wallet>>

\* isPasswordValid = await bcrypt.compare(...); if valid: jwt.sign, 200; else 401
LoginCompare(r) ==
    /\ reqs[r].route = "login" /\ reqs[r].pc = "compare"
    /\ LET q == reqs[r]
       IN reqs' = [reqs EXCEPT ![r] =
              IF CompareThrows(q.body.password)
              THEN Respond(q, 500, "err", NoUser, NoToken)
              ELSE IF BcryptCompare(q.body.password, q.user.password)
                   THEN IF SignThrows(secret)
                        THEN Respond(q, 500, "err", NoUser, NoToken)
                        ELSE Respond(q, 200, "", q.user, JwtSign(q.user, secret, clock))
                   ELSE LoginMismatch(q)]
    /\ UNCHANGED <<userVars, catalogVars, envVars, clock, wallet>>

\* ------------------------------------------------------------------- time
Tick ==
    /\ \E d \in TickSteps : clock + d <= MaxClock /\ clock' = clock + d
    /\ UNCHANGED <<userVars, catalogVars, envVars, reqs, wallet>>

\* the client is done with an answered (or abandoned) request: its slot is free again
Forget(r) ==
    /\ Finished(reqs[r])
    /\ reqs' = [reqs EXCEPT ![r] = IdleReq]
    /\ UNCHANGED <<userVars, catalogVars, envVars, clock, wallet>>

\* ------------------------------------------------- the gate (middelware/)
\* the middleware each protected route is composed with, in order
CategoryRoutes ==
    {"categories.list", "categories.get", "categories.post",
     "categories.patch", "categories.delete"}
ProductRoutes ==
    {"products.list", "products.get", "products.post",
     "products.patch", "products.delete"}
ProtectedRoutes == CategoryRoutes \cup ProductRoutes
AdminRoutes == CategoryRoutes \cup {"products.post", "products.patch", "products.delete"}

M_NoAuth_Chain(route) ==
    IF route = "products.list" THEN <<>>
    ELSE IF route = "products.get" THEN <<"authenticateToken">>
    ELSE <<"authenticateToken", "authorizeRoles">>
M_NoRole_Chain(route) ==
    IF route \in {"products.list", "products.get", "products.delete"}
    THEN <<"authenticateToken">>
    ELSE <<"authenticateToken", "authorizeRoles">>
Chain(route) ==
    IF route \in {"products.list", "products.get"}
    THEN <<"authenticateToken">>
    ELSE <<"authenticateToken", "authorizeRoles">>

\* authorizeRoles(["admin"])
AllowedRoles == {"admin"}

\* jwt.verify(token, secret): the signature is the process secret's and the
\* token has not expired (expired from exp on)
TokenVerifies(token, key, now) ==
    /\ key # NoValue
    /\ token.kind = "jwt"
    /\ token.sig = key
    /\ now < token.exp

\* authenticateToken: attach the decoded identity, or answer 401
AuthenticateToken(q, key, now) ==
    LET q1 == [q EXCEPT !.ran = Append(q.ran, "authenticateToken")]
    IN IF TokenVerifies(q.token, key, now)
       THEN [q1 EXCEPT !.identity = [id |-> q.token.id, role |-> q.token.role]]
       ELSE RespondItems(q1, 401, "Unauthorized", {})

\* authorizeRoles(roles): let the identity's role through, or answer 403;
\* without an identity it cannot read the role, and the request ends in 500
AuthorizeRoles(q, roles) ==
    LET q1 == [q EXCEPT !.ran = Append(q.ran, "authorizeRoles")]
    IN IF q.identity = NoIdentity THEN RespondItems(q1, 500, "Internal Server Error", {})
       ELSE IF q.identity.role \in roles THEN q1
       ELSE RespondItems(q1, 403, "Forbidden", {})

\* the chain runs synchronously when the request arrives; the handler is
\* entered only when every middleware called next()
RECURSIVE RunChain(_, _, _, _)
RunChain(q, chain, key, now) ==
    IF chain = <<>>
    THEN [q EXCEPT !.pc = "handler", !.handlerRan = TRUE]
    ELSE LET q1 == IF Head(chain) = "authenticateToken"
                   THEN AuthenticateToken(q, key, now)
                   ELSE AuthorizeRoles(q, AllowedRoles)
         IN IF Finished(q1) THEN q1 ELSE RunChain(q1, Tail(chain), key, now)

\* ------------------------------------------------------ protected requests
Ids == 1..MaxId
ItemNames == {"n1", "n2"}
CategoryBodies == {[NoItem EXCEPT !.name = n] : n \in ItemNames \cup {NoValue}}
ProductBodies ==
    {[name |-> "n1", description |-> "d1", price |-> "9", categoryId |-> 1],
     [name |-> "n2", description |-> NoValue, price |-> "9", categoryId |-> 0],
     [name |-> NoValue, description |-> NoValue, price |-> NoValue, categoryId |-> 2]}

\* what a request of each route carries: the path's id and the body
RouteInputs(route) ==
    IF route \in {"categories.list", "products.list"}
    THEN {[id |-> 0, item |-> NoItem]}
    ELSE IF route \in {"categories.get", "categories.delete", "products.get", "products.delete"}
    THEN {[id |-> i, item |-> NoItem] : i \in Ids}
    ELSE IF route = "categories.post"
    THEN {[id |-> 0, item |-> b] : b \in CategoryBodies}
    ELSE IF route = "categories.patch"
    THEN {[id |-> i, item |-> b] : i \in Ids, b \in CategoryBodies}
    ELSE IF route = "products.post"
    THEN {[id |-> 0, item |-> b] : b \in ProductBodies}
    ELSE {[id |-> i, item |-> b] : i \in Ids, b \in ProductBodies}

\* a token an outsider signs with a secret of their own, claiming admin
ForgedToken(now) ==
    [kind |-> "jwt", id |-> 1, role |-> "admin", iat |-> now,
     exp |-> now + ExpiresIn, sig |-> OtherSecret]
Presentable == wallet \cup {NoToken, MalformedToken, ForgedToken(clock)}

\* the auto-increment counters stay within the ids of the model
RoomFor(route) ==
    /\ route = "categories.post" => nextCategoryId <= MaxId
    /\ route = "products.post" => nextProductId <= MaxId

ReceiveProtected(r) ==
    /\ SlotFree(r)
    /\ \E route \in ProtectedRoutes, t \in Presentable :
         /\ RoomFor(route)
         /\ \E in \in RouteInputs(route) :
              reqs' = [reqs EXCEPT ![r] =
                 RunChain([IdleReq EXCEPT !.route = route, !.pc = "chain", !.token = t,
                              !.id = in.id, !.item = in.item, !.recvAt = clock],
                          Chain(route), secret, clock)]
    /\ UNCHANGED <<userVars, catalogVars, envVars, clock, wallet>>

\* the client keeps the token of a 200 login, dropping an older one when full
Keep(r) ==
    /\ reqs[r].route = "login" /\ reqs[r].status = 200
    /\ reqs[r].resToken \notin wallet
    /\ IF Cardinality(wallet) < MaxTokens
       THEN wallet' = wallet \cup {reqs[r].resToken}
       ELSE \E old \in wallet : wallet' = (wallet \ {old}) \cup {reqs[r].resToken}
    /\ UNCHANGED <<userVars, catalogVars, envVars, clock, reqs>>

\* one more call to the database by this request
Called(q) == [q EXCEPT !.storeOps = q.storeOps + 1]
Wrote(q) == [q EXCEPT !.storeOps = q.storeOps + 1, !.wrote = TRUE]
InHandler(r, route) == reqs[r].route = route /\ reqs[r].pc = "handler"

\* --------------------------------------------------------------- /categories
\* Category.name: allowNull false, unique
CategoryInvalid(cats, id, name) ==
    \/ name = NoValue
    \/ \E c \in cats : c.name = name /\ c.id # id

\* GET /categories
CategoryList(r) ==
    /\ InHandler(r, "categories.list")
    /\ \E db \in StoreOutcomes :
         LET q == Called(reqs[r])
         IN reqs' = [reqs EXCEPT ![r] =
                IF db = "fail" THEN RespondItems(q, 500, "error", {})
                ELSE IF categories = {}
                     THEN RespondItems(q, 404, "No categories found", {})
                     ELSE RespondItems(q, 200, "", categories)]
    /\ UNCHANGED <<userVars, catalogVars, envVars, clock, wallet>>

\* GET /categories/:id
CategoryGet(r) ==
    /\ InHandler(r, "categories.get")
    /\ \E db \in StoreOutcomes :
         LET q == [Called(reqs[r]) EXCEPT
                      !.existed = \E c \in categories : c.id = reqs[r].id]
             found == {c \in categories : c.id = q.id}
         IN reqs' = [reqs EXCEPT ![r] =
                IF db = "fail" THEN RespondItems(q, 500, "error", {})
                ELSE IF found = {}
                     THEN RespondItems(q, 404, "Category not found", {})
                     ELSE RespondItems(q, 200, "", found)]
    /\ UNCHANGED <<userVars, catalogVars, envVars, clock, wallet>>

\* POST /categories
CategoryPost(r) ==
    /\ InHandler(r, "categories.post")
    /\ \E db \in StoreOutcomes :
         LET q == Wrote(reqs[r])
             category == [id |-> nextCategoryId, name |-> q.item.name]
         IN IF db = "fail" \/ CategoryInvalid(categories, 0, q.item.name)
            THEN /\ reqs' = [reqs EXCEPT ![r] = RespondItems(q, 500, "error", {})]
                 /\ UNCHANGED <<categories, nextCategoryId>>
            ELSE /\ categories' = categories \cup {category}
                 /\ nextCategoryId' = nextCategoryId + 1
                 /\ reqs' = [reqs EXCEPT ![r] = RespondItems(q, 201, "", {category})]
    /\ UNCHANGED <<userVars, products, nextProductId, envVars, clock, wallet>>

\* PATCH /categories/:id, up to the findOne
CategoryPatchFindOne(r) ==
    /\ InHandler(r, "categories.patch")
    /\ \E db \in StoreOutcomes :
         LET q == [Called(reqs[r]) EXCEPT
                      !.existed = \E c \in categories : c.id = reqs[r].id]
         IN reqs' = [reqs EXCEPT ![r] =
                IF db = "fail" THEN RespondItems(q, 500, "error", {})
                ELSE IF ~q.existed
                     THEN RespondItems(q, 404, "Category not found", {})
                     ELSE [q EXCEPT !.pc = "update"]]
    /\ UNCHANGED <<userVars, catalogVars, envVars, clock, wallet>>

\* Category.update(values, {where: {id}}): undefined values and fields the
\* model does not have are left out
CategoryUpdated(cats, id, item) ==
    IF item.name = NoValue THEN cats
    ELSE {IF c.id = id THEN [c EXCEPT !.name = item.name] ELSE c : c \in cats}

\* PATCH /categories/:id, the update and the answer
CategoryPatchUpdate(r) ==
    /\ reqs[r].route = "categories.patch" /\ reqs[r].pc = "update"
    /\ \E db \in StoreOutcomes :
         LET q == Wrote(reqs[r])
             hit == \E c \in categories : c.id = q.id
         IN IF db = "fail" \/ (hit /\ q.item.name # NoValue
                                /\ CategoryInvalid(categories, q.id, q.item.name))
            THEN /\ reqs' = [reqs EXCEPT ![r] = RespondItems(q, 500, "error", {})]
                 /\ UNCHANGED categories
            ELSE /\ categories' = CategoryUpdated(categories, q.id, q.item)
                 /\ reqs' = [reqs EXCEPT ![r] =
                        RespondItems(q, 200, "Category updated successfully", {})]
    /\ UNCHANGED <<userVars, nextCategoryId, products, nextProductId, envVars, clock, wallet>>

\* Product.categoryId references Category.id: what the database does to a
\* delete of a category that products still point to depends on the rule the
\* constraint was created with
OnDeleteRules == {"SET NULL", "NO ACTION"}

\* DELETE /categories/:id
CategoryDelete(r) ==
    /\ InHandler(r, "categories.delete")
    /\ \E db \in StoreOutcomes, rule \in OnDeleteRules :
         LET q == [Wrote(reqs[r]) EXCEPT
                      !.existed = \E c \in categories : c.id = reqs[r].id]
             referenced == \E p \in products : p.categoryId = q.id
             rowsDeleted == Cardinality({c \in categories : c.id = q.id})
         IN IF db = "fail" \/ (q.existed /\ referenced /\ rule = "NO ACTION")
            THEN /\ reqs' = [reqs EXCEPT ![r] = RespondItems(q, 500, "error", {})]
                 /\ UNCHANGED <<categories, products>>
            ELSE /\ categories' = {c \in categories : c.id # q.id}
                 /\ products' = IF q.existed
                                THEN {IF p.categoryId = q.id
                                      THEN [p EXCEPT !.categoryId = 0] ELSE p : p \in products}
                                ELSE products
                 /\ reqs' = [reqs EXCEPT ![r] =
                        IF rowsDeleted = 0
                        THEN RespondItems(q, 404, "Category not found", {})
                        ELSE RespondItems(q, 200, "Category deleted successfully", {})]
    /\ UNCHANGED <<userVars, nextCategoryId, nextProductId, envVars, clock, wallet>>

\* ----------------------------------------------------------------- /products
NoCategory == [id |-> 0, name |-> ""]
\* include: {model: Category, as: "Category"}
IncludeCategory(p, cats) ==
    [id |-> p.id, name |-> p.name, description |-> p.description, price |-> p.price,
     categoryId |-> p.categoryId,
     Category |-> IF \E c \in cats : c.id = p.categoryId
                  THEN CHOOSE c \in cats : c.id = p.categoryId
                  ELSE NoCategory]

\* Product: name and price allowNull false, categoryId references Category.id
ProductInvalid(cats, item) ==
    \/ item.name = NoValue
    \/ item.price = NoValue
    \/ (item.categoryId # 0 /\ ~\E c \in cats : c.id = item.categoryId)

\* GET /products
ProductList(r) ==
    /\ InHandler(r, "products.list")
    /\ \E db \in StoreOutcomes :
         LET q == Called(reqs[r])
         IN reqs' = [reqs EXCEPT ![r] =
                IF db = "fail" THEN RespondItems(q, 500, "err", {})
                ELSE RespondItems(q, 200, "",
                                  {IncludeCategory(p, categories) : p \in products})]
    /\ UNCHANGED <<userVars, catalogVars, envVars, clock, wallet>>

\* GET /products/:id
ProductGet(r) ==
    /\ InHandler(r, "products.get")
    /\ \E db \in StoreOutcomes :
         LET q == [Called(reqs[r]) EXCEPT
                      !.existed = \E p \in products : p.id = reqs[r].id]
             found == {p \in products : p.id = q.id}
         IN reqs' = [reqs EXCEPT ![r] =
                IF db = "fail" THEN RespondItems(q, 500, "err", {})
                ELSE IF found = {}
                     THEN RespondItems(q, 404, "Product not found", {})
                     ELSE RespondItems(q, 200, "",
                                       {IncludeCategory(p, categories) : p \in found})]
    /\ UNCHANGED <<userVars, catalogVars, envVars, clock, wallet>>

\* POST /products
ProductPost(r) ==
    /\ InHandler(r, "products.post")
    /\ \E db \in StoreOutcomes :
         LET q == Wrote(reqs[r])
             product == [id |-> nextProductId, name |-> q.item.name,
                         description |-> q.item.description, price |-> q.item.price,
                         categoryId |-> q.item.categoryId]
         IN IF db = "fail" \/ ProductInvalid(categories, q.item)
            THEN /\ reqs' = [reqs EXCEPT ![r] = RespondItems(q, 500, "err", {})]
                 /\ UNCHANGED <<products, nextProductId>>
            ELSE /\ products' = products \cup {product}
                 /\ nextProductId' = nextProductId + 1
                 /\ reqs' = [reqs EXCEPT ![r] = RespondItems(q, 201, "", {product})]
    /\ UNCHANGED <<userVars, categories, nextCategoryId, envVars, clock, wallet>>

\* Product.update(values, {where: {id}}): undefined values are left out
Patched(p, item) ==
    [id |-> p.id,
     name |-> IF item.name = NoValue THEN p.name ELSE item.name,
     description |-> IF item.description = NoValue THEN p.description ELSE item.description,
     price |-> IF item.price = NoValue THEN p.price ELSE item.price,
     categoryId |-> IF item.categoryId = 0 THEN p.categoryId ELSE item.categoryId]
ProductUpdated(prods, id, item) ==
    {IF p.id = id THEN Patched(p, item) ELSE p : p \in prods}

\* Model.update resolves to the array [affectedCount]; its own keys
UpdateResultKeys == {"0", "length"}
\* const {updated} = <that array>: the array's property "updated"
Updated(affectedCount) == IF "updated" \in UpdateResultKeys THEN affectedCount ELSE 0

\* PATCH /products/:id (the findOne of the if(updated) branch is part of the step)
ProductPatch(r) ==
    /\ InHandler(r, "products.patch")
    /\ \E db \in StoreOutcomes :
         LET q == [Wrote(reqs[r]) EXCEPT
                      !.existed = \E p \in products : p.id = reqs[r].id]
             affectedCount == Cardinality({p \in products : p.id = q.id})
             fkFails == q.existed /\ q.item.categoryId # 0
                        /\ ~\E c \in categories : c.id = q.item.categoryId
             after == ProductUpdated(products, q.id, q.item)
         IN IF db = "fail" \/ fkFails
            THEN /\ reqs' = [reqs EXCEPT ![r] = RespondItems(q, 500, "err", {})]
                 /\ UNCHANGED products
            ELSE /\ products' = after
                 /\ reqs' = [reqs EXCEPT ![r] =
                        IF Updated(affectedCount) # 0
                        THEN RespondItems([q EXCEPT !.storeOps = q.storeOps + 1], 200, "",
                                 {IncludeCategory(p, categories) : p \in {x \in after : x.id = q.id}})
                        ELSE RespondItems(q, 200, "Product updated successfully", {})]
    /\ UNCHANGED <<userVars, categories, nextCategoryId, nextProductId, envVars, clock, wallet>>

\* DELETE /products/:id
M_ProductDelete(r) ==
    /\ InHandler(r, "products.delete")
    /\ \E db \in StoreOutcomes :
         LET q == [Wrote(reqs[r]) EXCEPT
                      !.existed = \E p \in products : p.id = reqs[r].id]
         IN IF db = "fail"
            THEN /\ reqs' = [reqs EXCEPT ![r] = RespondItems(q, 500, "err", {})]
                 /\ UNCHANGED products
            ELSE /\ products' = {p \in products : p.id # q.id}
                 /\ reqs' = [reqs EXCEPT ![r] =
                        RespondItems(q, 200, "Product deleted successfully", {})]
    /\ UNCHANGED <<userVars, categories, nextCategoryId, nextProductId, envVars, clock, wallet>>
ProductDelete(r) ==
    /\ InHandler(r, "products.delete")
    /\ \E db \in StoreOutcomes :
         LET q == [Wrote(reqs[r]) EXCEPT
                      !.existed = \E p \in products : p.id = reqs[r].id]
             rowsDeleted == Cardinality({p \in products : p.id = q.id})
         IN IF db = "fail"
            THEN /\ reqs' = [reqs EXCEPT ![r] = RespondItems(q, 500, "err", {})]
                 /\ UNCHANGED products
            ELSE /\ products' = {p \in products : p.id # q.id}
                 /\ reqs' = [reqs EXCEPT ![r] =
                        IF rowsDeleted = 0
                        THEN RespondItems(q, 404, "Product not found", {})
                        ELSE RespondItems(q, 200, "Product deleted successfully", {})]
    /\ UNCHANGED <<userVars, categories, nextCategoryId, nextProductId, envVars, clock, wallet>>

\* ------------------------------------------------------------ specifications
\* index.js: app.listen is called whatever the environment holds
Bootstrap(key) == TRUE

EmptyCatalog ==
    /\ categories = {}
    /\ nextCategoryId = 1
    /\ products = {}
    /\ nextProductId = 1
    /\ wallet = {}

\* the process after index.js has run: empty tables, the server listening
Init ==
    /\ users = {}
    /\ nextUserId = 1
    /\ registered = [e \in Emails |-> NoReg]
    /\ clock = 0
    /\ secret = ProcessSecret
    /\ storeFaulty = FALSE
    /\ serving = Bootstrap(secret)
    /\ reqs = [r \in 1..MaxReqs |-> IdleReq]
    /\ EmptyCatalog

\* the same process started without SECRET_KEY, its database calls able to fail
InitFaults ==
    /\ users = {}
    /\ nextUserId = 1
    /\ registered = [e \in Emails |-> NoReg]
    /\ clock = 0
    /\ secret = NoValue
    /\ storeFaulty = TRUE
    /\ serving = Bootstrap(secret)
    /\ reqs = [r \in 1..MaxReqs |-> IdleReq]
    /\ EmptyCatalog

Next ==
    \/ \E r \in Slots : ReceiveRegister(r)
    \/ \E r \in Slots : RegisterFindOne(r)
    \/ \E r \in Slots : RegisterHash(r)
    \/ \E r \in Slots : RegisterCreate(r)
    \/ \E r \in Slots : ReceiveLogin(r)
    \/ \E r \in Slots : LoginFindOne(r)
    \/ \E r \in Slots : LoginCompare(r)
    \/ \E r \in Slots : Forget(r)
    \/ Tick

Spec == Init /\ [][Next]_vars
SpecFaults == InitFaults /\ [][Next]_vars

\* a deployment in which an admin and a customer have registered
AdminUser ==
    [id |-> 1, name |-> "A", email |-> "a@x.com",
     password |-> BcryptHash("pw", SaltRounds, "s1"), role |-> "admin"]
PlainUser ==
    [id |-> 2, name |-> "A", email |-> "b@x.com",
     password |-> BcryptHash("pw", SaltRounds, "s2"), role |-> "user"]

InitGate ==
    /\ users = {AdminUser, PlainUser}
    /\ nextUserId = 3
    /\ registered = [e \in Emails |->
          [user |-> FindOneByEmail({AdminUser, PlainUser}, e), password |-> "pw", count |-> 1]]
    /\ clock = 0
    /\ secret = ProcessSecret
    /\ storeFaulty = FALSE
    /\ serving = Bootstrap(secret)
    /\ reqs = [r \in 1..MaxGateReqs |-> IdleReq]
    /\ EmptyCatalog

NextGate ==
    \/ \E r \in Slots : ReceiveLogin(r)
    \/ \E r \in Slots : LoginFindOne(r)
    \/ \E r \in Slots : LoginCompare(r)
    \/ \E r \in Slots : Keep(r)
    \/ \E r \in Slots : ReceiveProtected(r)
    \/ \E r \in Slots : CategoryList(r)
    \/ \E r \in Slots : CategoryGet(r)
    \/ \E r \in Slots : CategoryPost(r)
    \/ \E r \in Slots : CategoryPatchFindOne(r)
    \/ \E r \in Slots : CategoryPatchUpdate(r)
    \/ \E r \in Slots : CategoryDelete(r)
    \/ \E r \in Slots : ProductList(r)
    \/ \E r \in Slots : ProductGet(r)
    \/ \E r \in Slots : ProductPost(r)
    \/ \E r \in Slots : ProductPatch(r)
    \/ \E r \in Slots : ProductDelete(r)
    \/ \E r \in Slots : Forget(r)
    \/ Tick

SpecGate == InitGate /\ [][NextGate]_vars

\* the process after index.js has run, its clients sending one request at a
\* time, all within the hour: registration, login and the protected routes
InitRoles ==
    /\ users = {}
    /\ nextUserId = 1
    /\ registered = [e \in Emails |-> NoReg]
    /\ clock = 0
    /\ secret = ProcessSecret
    /\ storeFaulty = FALSE
    /\ serving = Bootstrap(secret)
    /\ reqs = [r \in 1..MaxGateReqs |-> IdleReq]
    /\ EmptyCatalog

NextRoles ==
    \/ \E r \in Slots : ReceiveRegister(r)
    \/ \E r \in Slots : RegisterFindOne(r)
    \/ \E r \in Slots : RegisterHash(r)
    \/ \E r \in Slots : RegisterCreate(r)
    \/ \E r \in Slots : ReceiveLogin(r)
    \/ \E r \in Slots : LoginFindOne(r)
    \/ \E r \in Slots : LoginCompare(r)
    \/ \E r \in Slots : Keep(r)
    \/ \E r \in Slots : ReceiveProtected(r)
    \/ \E r \in Slots : CategoryList(r)
    \/ \E r \in Slots : CategoryGet(r)
    \/ \E r \in Slots : CategoryPost(r)
    \/ \E r \in Slots : CategoryPatchFindOne(r)
    \/ \E r \in Slots : CategoryPatchUpdate(r)
    \/ \E r \in Slots : CategoryDelete(r)
    \/ \E r \in Slots : ProductList(r)
    \/ \E r \in Slots : ProductGet(r)
    \/ \E r \in Slots : ProductPost(r)
    \/ \E r \in Slots : ProductPatch(r)
    \/ \E r \in Slots : ProductDelete(r)
    \/ \E r \in Slots : Forget(r)

SpecRoles == InitRoles /\ [][NextRoles]_vars

\* ------------------------------------------------------------------ claims
\* C1: once a register for an email has been answered 201, every register
\* request that arrives later with that email is answered 400 'User already
\* exists' and never gets as far as hashing or creating; the table holds
\* exactly the one record the 201 reported for that email.
C1_SequentialRegistration ==
    /\ \A r \in Slots :
          (reqs[r].route = "register" /\ reqs[r].prior # NoReg) =>
             /\ reqs[r].pc \in {"findOne", "done"}
             /\ Finished(reqs[r]) =>
                   /\ reqs[r].status = 400
                   /\ reqs[r].message = "User already exists"
                   /\ reqs[r].nresp = 1
    /\ \A e \in Emails :
          registered[e] # NoReg =>
             {u \in users : u.email = e} = {registered[e].user}

C1_Witness ==
    \E r \in Slots :
       /\ reqs[r].route = "register" /\ reqs[r].prior # NoReg
       /\ reqs[r].status = 400
       /\ Cardinality({u \in users : u.email = reqs[r].body.email}) = 1

C3_LoginAfterRegister ==
    \A r \in Slots :
       (/\ reqs[r].route = "login" /\ Finished(reqs[r])
        /\ reqs[r].prior # NoReg
        /\ reqs[r].body.password = reqs[r].prior.password) =>
          /\ reqs[r].status = 200 /\ reqs[r].nresp = 1
          /\ reqs[r].resToken.kind = "jwt"
          /\ reqs[r].resToken.id = reqs[r].prior.user.id
          /\ reqs[r].resToken.role = reqs[r].prior.user.role
          /\ reqs[r].resToken.role = FindOneByEmail(users, reqs[r].body.email).role
          /\ reqs[r].resToken.sig = secret
          /\ reqs[r].resToken.iat = reqs[r].at
          /\ reqs[r].resToken.exp = reqs[r].at + 60

C3_Witness ==
    \E r \in Slots :
       /\ reqs[r].route = "login" /\ reqs[r].prior # NoReg
       /\ reqs[r].status = 200 /\ reqs[r].resToken.role = "admin"
       /\ reqs[r].at > 0

\* C4: a login for an email no user has and a login whose password does not
\* match the stored hash get the same answer, 401 'Invalid credentials', with
\* no token; no step of a login changes the User table.
LoginRejected(q) ==
    /\ q.route = "login" /\ Finished(q) /\ q.status # 500
    /\ \/ q.user = NoUser
       \/ /\ ~CompareThrows(q.body.password)
          /\ ~BcryptCompare(q.body.password, q.user.password)
LoginStep(r) == reqs[r].route = "login" /\ reqs'[r] # reqs[r]

C4_UniformLoginFailure ==
    /\ [](\A r \in Slots :
            LoginRejected(reqs[r]) =>
               /\ reqs[r].status = 401
               /\ reqs[r].message = "Invalid credentials"
               /\ reqs[r].resToken = NoToken
               /\ reqs[r].resUser = NoUser
               /\ reqs[r].nresp = 1)
    /\ [][(\E r \in Slots : LoginStep(r)) =>
             (users' = users /\ nextUserId' = nextUserId)]_vars

\* one login rejected for an unknown email next to one rejected for a wrong password
C4_Witness ==
    \E r1, r2 \in Slots :
       /\ LoginRejected(reqs[r1]) /\ reqs[r1].user = NoUser
       /\ LoginRejected(reqs[r2]) /\ reqs[r2].user # NoUser
       /\ reqs[r1].status = reqs[r2].status /\ reqs[r1].message = reqs[r2].message

\* the token a protected request carried, judged at the time it arrived
ValidToken(q) ==
    q.token.kind = "jwt" /\ q.token.sig = secret /\ q.recvAt < q.token.exp
BadToken(q) ==
    \/ q.token.kind = "missing"
    \/ q.token.kind = "malformed"
    \/ q.token.kind = "jwt" /\ q.token.sig # secret
    \/ q.token.kind = "jwt" /\ q.recvAt >= q.token.exp

\* C5: on every /categories and /products route a request whose token is
\* missing, malformed, signed with another secret or expired is answered 401
\* and its handler never runs: the request makes no call to the stores.
C5_BadTokenNeverReachesHandler ==
    \A r \in Slots :
       (reqs[r].route \in ProtectedRoutes /\ BadToken(reqs[r])) =>
          /\ reqs[r].pc = "done"
          /\ reqs[r].status = 401
          /\ reqs[r].nresp = 1
          /\ ~reqs[r].handlerRan
          /\ reqs[r].storeOps = 0
          /\ reqs[r].identity = NoIdentity

\* a token login issued, presented on a /products route after it expired
C5_Witness ==
    \E r \in Slots :
       /\ reqs[r].route \in ProductRoutes
       /\ reqs[r].token.kind = "jwt" /\ reqs[r].token.sig = secret
       /\ reqs[r].recvAt >= reqs[r].token.exp
       /\ reqs[r].status = 401

\* C6: on the admin routes authorizeRoles runs only after authenticateToken
\* attached an identity; a valid token of another role is answered 403 and
\* makes no call to the stores; a valid admin token reaches the handler; and
\* only requests that carried a valid admin token ever write to, or change,
\* the Category and Product tables.
C6_RoleGate ==
    /\ [](\A r \in Slots :
            /\ reqs[r].route \in AdminRoutes =>
                 /\ (\E i \in DOMAIN reqs[r].ran : reqs[r].ran[i] = "authorizeRoles") =>
                       /\ reqs[r].ran = <<"authenticateToken", "authorizeRoles">>
                       /\ reqs[r].identity # NoIdentity
                 /\ (ValidToken(reqs[r]) /\ reqs[r].token.role # "admin") =>
                       /\ reqs[r].pc = "done" /\ reqs[r].status = 403
                       /\ ~reqs[r].handlerRan /\ reqs[r].storeOps = 0
                 /\ (ValidToken(reqs[r]) /\ reqs[r].token.role = "admin") =>
                       reqs[r].handlerRan
            /\ reqs[r].wrote =>
                 /\ reqs[r].route \in AdminRoutes
                 /\ ValidToken(reqs[r]) /\ reqs[r].token.role = "admin")
    /\ [][catalogVars' # catalogVars =>
             \E r \in Slots :
                /\ reqs'[r].wrote /\ reqs'[r] # reqs[r]
                /\ ValidToken(reqs'[r]) /\ reqs'[r].token.role = "admin"]_vars

\* a customer's valid token turned away from DELETE /categories/:id while the
\* tables hold what an admin created
C6_Witness ==
    \E r \in Slots :
       /\ reqs[r].route = "categories.delete"
       /\ ValidToken(reqs[r]) /\ reqs[r].token.role = "user"
       /\ reqs[r].status = 403
       /\ categories # {} /\ products # {}

\* C7: a token login issued at T is accepted by the gate at every time before
\* T + 1h and rejected at every time after it, whatever else has happened.
C7_TokenLifetime ==
    \A r \in Slots :
       (/\ reqs[r].route \in ProtectedRoutes
        /\ reqs[r].token.kind = "jwt" /\ reqs[r].token.sig = secret) =>
          /\ reqs[r].recvAt < reqs[r].token.iat + 60 =>
                /\ reqs[r].status # 401
                /\ reqs[r].identity = [id |-> reqs[r].token.id, role |-> reqs[r].token.role]
          /\ reqs[r].recvAt > reqs[r].token.iat + 60 =>
                /\ reqs[r].status = 401
                /\ ~reqs[r].handlerRan

\* the token of a login presented 61 minutes after it was issued
C7_Witness ==
    \E r \in Slots :
       /\ reqs[r].route \in ProtectedRoutes
       /\ reqs[r].token.kind = "jwt" /\ reqs[r].token.sig = secret
       /\ reqs[r].recvAt = reqs[r].token.iat + 61
       /\ reqs[r].status = 401

\* C8: with SECRET_KEY absent the server does not serve, so no login gets as
\* far as signing a token and fails there with a per-request error.
SignReached(q) ==
    /\ q.route = "login" /\ Finished(q)
    /\ q.user # NoUser
    /\ ~CompareThrows(q.body.password)
    /\ BcryptCompare(q.body.password, q.user.password)
C8_AbsentSecretIsStartupFatal ==
    SignThrows(secret) =>
       \A r \in Slots : ~(SignReached(reqs[r]) /\ reqs[r].status = 500)

\* C9: every register and login request that has ended was sent exactly one
\* response, with a status of 201, 400 or 500 (register), 200, 401 or 500
\* (login), also when a lookup, the hashing, the comparison or the create failed.
C9_ErrorsCaughtAtBoundary ==
    \A r \in Slots :
       (reqs[r].route \in {"register", "login"} /\ Finished(reqs[r])) =>
          /\ reqs[r].nresp = 1
          /\ reqs[r].status \in (IF reqs[r].route = "register"
                                 THEN {201, 400, 500} ELSE {200, 401, 500})

\* C10: an admin's PATCH /products/:id is answered 404 'Product not found',
\* the table unchanged, when no product has the id, and 200 with the updated
\* product and its Category when one has.
C10_PatchProduct ==
    \A r \in Slots :
       (reqs[r].route = "products.patch" /\ reqs[r].pc = "done" /\ reqs[r].wrote
        /\ reqs[r].status # 500) =>
          IF ~reqs[r].existed
          THEN reqs[r].status = 404 /\ reqs[r].message = "Product not found"
          ELSE /\ reqs[r].status = 200
               /\ reqs[r].resItems =
                     {IncludeCategory(p, categories) : p \in {x \in products : x.id = reqs[r].id}}
               /\ \A p \in reqs[r].resItems :
                     /\ reqs[r].item.name # NoValue => p.name = reqs[r].item.name
                     /\ reqs[r].item.price # NoValue => p.price = reqs[r].item.price
                     /\ reqs[r].item.categoryId # 0 => p.categoryId = reqs[r].item.categoryId

\* ids are handed out in increasing order and never again: an id below the
\* counter that no row carries is the id of a deleted record
GoneCategory(i) == i < nextCategoryId /\ ~\E c \in categories : c.id = i
GoneProduct(i) == i < nextProductId /\ ~\E p \in products : p.id = i
HandlerStep(r, route) == InHandler(r, route) /\ reqs'[r].pc = "done"
Referenced(i) == \E p \in products : p.categoryId = i
DeletedStaysDeleted ==
    \A i \in Ids : /\ GoneCategory(i) => GoneCategory(i)'
                   /\ GoneProduct(i) => GoneProduct(i)'
GetOfDeleted(r) ==
    /\ (HandlerStep(r, "categories.get") /\ GoneCategory(reqs[r].id)) =>
          reqs'[r].status = 404
    /\ (HandlerStep(r, "products.get") /\ GoneProduct(reqs[r].id)) =>
          reqs'[r].status = 404
ProductDeleteStep(r) ==
    HandlerStep(r, "products.delete") =>
       /\ reqs'[r].status = IF \E p \in products : p.id = reqs[r].id THEN 200 ELSE 404
       /\ products' = {p \in products : p.id # reqs[r].id}
       /\ categories' = categories

\* C11 as stated: an admin's DELETE /categories/:id or /products/:id is
\* answered 200 when a record has the id and 404 when none has, removes that
\* record and no other and changes nothing else; a deleted id stays absent, so
\* a later GET or DELETE of it is answered 404.
C11_DeleteAsStated ==
    [][/\ \A r \in Slots :
             /\ ProductDeleteStep(r)
             /\ GetOfDeleted(r)
             /\ HandlerStep(r, "categories.delete") =>
                   /\ reqs'[r].status =
                         IF \E c \in categories : c.id = reqs[r].id THEN 200 ELSE 404
                   /\ categories' = {c \in categories : c.id # reqs[r].id}
                   /\ products' = products
       /\ DeletedStaysDeleted]_vars

\* C11, amended: the same, with DELETE /categories/:id of an existing
\* category held to it only while no product refers to the category.
C11_DeleteSemantics ==
    [][/\ \A r \in Slots :
             /\ ProductDeleteStep(r)
             /\ GetOfDeleted(r)
             /\ HandlerStep(r, "categories.delete") =>
                   IF ~\E c \in categories : c.id = reqs[r].id
                   THEN /\ reqs'[r].status = 404
                        /\ UNCHANGED <<categories, products>>
                   ELSE ~Referenced(reqs[r].id) =>
                           /\ reqs'[r].status = 200
                           /\ categories' = {c \in categories : c.id # reqs[r].id}
                           /\ products' = products
       /\ DeletedStaysDeleted]_vars
C11_Witness ==
    \E r \in Slots :
       /\ reqs[r].route = "categories.delete" /\ reqs[r].pc = "done"
       /\ GoneCategory(reqs[r].id) /\ reqs[r].status = 404
       /\ \E i \in Ids : GoneProduct(i)
       /\ products # {}

\* the tokens clients hold or a login has just returned
IssuedTokens ==
    wallet \cup {reqs[r].resToken :
                    r \in {s \in Slots : reqs[s].route = "login" /\ reqs[s].status = 200}}
\* the step of a register request that creates the user
CreateStep(r) ==
    /\ reqs[r].route = "register" /\ reqs[r].pc = "create"
    /\ reqs'[r].status = 201

\* C12: register stores the role of the request body as it is, whatever the
\* role and whoever asks; every token login issues carries the role its user
\* registered with; and a valid token whose role is admin, the token of a
\* client that registered as admin, passes the gate of every admin route.
C12_SelfAssignedRole ==
    /\ [][\A r \in Slots :
             CreateStep(r) =>
                /\ \E u \in users' \ users :
                      /\ u.email = reqs[r].body.email
                      /\ u.role = reqs[r].body.role
                      /\ reqs'[r].resUser = u
                /\ registered'[reqs[r].body.email].user.role = reqs[r].body.role]_vars
    /\ [](/\ \A u \in users : registered[u.email].user = u
          /\ \A t \in IssuedTokens :
                \E e \in Emails : /\ registered[e].user.id = t.id
                                  /\ registered[e].user.role = t.role
          /\ \A r \in Slots :
                (/\ reqs[r].route \in AdminRoutes
                 /\ ValidToken(reqs[r])
                 /\ reqs[r].token.role = "admin") =>
                    /\ reqs[r].handlerRan
                    /\ reqs[r].status \notin {401, 403})

\* a client that registered itself as admin and logged in has created a category
C12_Witness ==
    \E r \in Slots, e \in Emails :
       /\ reqs[r].route = "categories.post" /\ reqs[r].status = 201
       /\ reqs[r].token.role = "admin"
       /\ registered[e].count = 1
       /\ registered[e].user.id = reqs[r].token.id
       /\ registered[e].user.role = "admin"
       /\ users # {registered[e].user}

====
